---- MODULE Spec2Model ----
(***************************************************************************)
(* Upstream management of the proxy (src/proxy/upstream.rs): the global    *)
(* registry UPSTREAM_MAP, construction of ProxyUpstream units with their   *)
(* background service, runtime and cancellation sender, Drop, the health   *)
(* checks built from the configuration, backend selection and the rewrite  *)
(* of the headers of the outgoing request.                                 *)
(***************************************************************************)
EXTENDS Integers, Sequences, FiniteSets, TLC

\* ------------------------------------------------------------------ bounds
MaxThreshold == 2      \* largest successes / tcp_failures / http_failures drawn
MaxNodes == 3          \* most nodes of one upstream
MaxKey == 2            \* selection keys are 0..MaxKey
ProbeBudgetHealth == 6 \* probes completed in one behaviour of SpecHealth
ProbeBudgetSelect == 3 \* probes completed in one behaviour of SpecSelect
ProbeBudget == 1       \* probes completed in one behaviour of Spec
MaxLoads == 2          \* calls of load_static_upstreams in one behaviour
MaxUnits == 2          \* ProxyUpstream objects allocated in one behaviour

\* ------------------------------------------------------- program constants
DefaultThreshold == 1  \* TcpHealthCheck::new() / HttpHealthCheck::new()
DefaultFrequency == 1  \* unwrap_or(Duration::from_secs(1))
CandidateLimit == 256  \* max_iterations given to select
DefaultStatus == 200   \* the status an HTTP check without validator accepts

\* ---------------------------------------------------------- configuration
Ids == {"a", "b"}
SelectionTypes == {"RoundRobin", "Random", "Fnv", "Ketama"}
HashTypes == {"Fnv", "Ketama"}  \* the types that select by the hash of the key
CheckTypes == {"TCP", "HTTP", "HTTPS"}
HttpStatuses == {200, 500}

\* Option<config::Health>: healthy.successes, healthy.http_statuses, interval
NoHealthy == [some |-> FALSE, successes |-> 0, http_statuses |-> {}, interval |-> 0]
SomeHealthy(s, st) ==
    [some |-> TRUE, successes |-> s, http_statuses |-> st, interval |-> 1]

\* Option<config::Unhealthy>: unhealthy.tcp_failures, unhealthy.http_failures
NoUnhealthy == [some |-> FALSE, tcp_failures |-> 0, http_failures |-> 0]
SomeUnhealthy(t, h) == [some |-> TRUE, tcp_failures |-> t, http_failures |-> h]

\* Option<config::HealthCheck> (upstream.checks); path_ok: whether
\* Uri::builder().path_and_query(http_path).build() succeeds
NoChecks ==
    [some |-> FALSE, type |-> "TCP", path_ok |-> TRUE,
     healthy |-> NoHealthy, unhealthy |-> NoUnhealthy]
SomeChecks(t, p, h, u) ==
    [some |-> TRUE, type |-> t, path_ok |-> p, healthy |-> h, unhealthy |-> u]

\* upstream.headers: Option<HashMap<String, String>>. The keys are the names
\* as written in the configuration, Canon is the header name they stand for
\* (header names do not tell upper case from lower case); "absent": no entry.
\* The last key is no legal header name (a space), the last value no legal
\* header value (a control character).
LegalNames == {"X-Env", "x-env", "X-Id"}
RawNames == LegalNames \cup {"X Id"}
HeaderNames == {"x-env", "x-id"}
Canon(raw) == IF raw \in {"X-Env", "x-env"} THEN "x-env" ELSE "x-id"
ValidValues == {"prod", "staging"}
HeaderValues == ValidValues \cup {"pr\nod"}
NoHeaders == [raw \in RawNames |-> "absent"]

\* config::Upstream: id, selection type, number of nodes, checks, headers;
\* nodes_ok: whether HybridDiscovery::try_from accepts the node list
Upstream(id, ty, n, ok, ck) ==
    [id |-> id, type |-> ty, nodes |-> n, nodes_ok |-> ok, checks |-> ck,
     headers |-> NoHeaders]
WithHeaders(upstream, headers) == [upstream EXCEPT !.headers = headers]

VARIABLES
    UPSTREAM_MAP,  \* the registry: [Ids -> 0..MaxUnits], 0 = no entry
    units,         \* the ProxyUpstream objects allocated so far, by handle
    rt,            \* per unit: watch channel value, spawned service, runtime
    hist,          \* per unit and node: the probe history (runs of results)
    loader,        \* the running call of load_static_upstreams
    req,           \* the request path: unit held, last fetch / select result
    log,           \* messages logged so far, each with the load it came in
    budget         \* probes that may still complete

vars == <<UPSTREAM_MAP, units, rt, hist, loader, req, log, budget>>

Nodes == 1..MaxNodes
Handles == 1..MaxUnits

\* ------------------------------------------------ health checks (285-384)
\* the health check object installed in the LoadBalancer; set = FALSE when
\* the upstream has no checks. validate = FALSE: no validator closure.
NoHealthCheck ==
    [set |-> FALSE, kind |-> "tcp", consecutive_success |-> DefaultThreshold,
     consecutive_failure |-> DefaultThreshold, validate |-> FALSE,
     statuses |-> {}, uri_set |-> FALSE]

\* (mutant) the TCP check takes the threshold of the HTTP failures
TcpHealthCheckFrom_HttpFailures(value) ==
    [set |-> TRUE, kind |-> "tcp",
     consecutive_success |->
        IF value.healthy.some THEN value.healthy.successes ELSE DefaultThreshold,
     consecutive_failure |->
        IF value.unhealthy.some THEN value.unhealthy.http_failures
        ELSE DefaultThreshold,
     validate |-> FALSE, statuses |-> {}, uri_set |-> FALSE]

\* impl From<config::HealthCheck> for Box<TcpHealthCheck>
TcpHealthCheckFrom(value) ==
    [set |-> TRUE, kind |-> "tcp",
     consecutive_success |->
        IF value.healthy.some THEN value.healthy.successes ELSE DefaultThreshold,
     consecutive_failure |->
        IF value.unhealthy.some THEN value.unhealthy.tcp_failures
        ELSE DefaultThreshold,
     validate |-> FALSE, statuses |-> {}, uri_set |-> FALSE]

\* (mutant) healthy.successes is not copied into the HTTP check
HttpHealthCheckFrom_DefaultSuccesses(value) ==
    [set |-> TRUE, kind |-> "http",
     consecutive_success |-> DefaultThreshold,
     consecutive_failure |->
        IF value.unhealthy.some THEN value.unhealthy.http_failures
        ELSE DefaultThreshold,
     validate |-> value.healthy.some /\ value.healthy.http_statuses # {},
     statuses |-> IF value.healthy.some THEN value.healthy.http_statuses ELSE {},
     uri_set |-> value.path_ok]

\* impl From<config::HealthCheck> for Box<HttpHealthCheck>: an invalid path
\* only logs a warning and leaves the request URI at its default
HttpHealthCheckFrom(value) ==
    [set |-> TRUE, kind |-> "http",
     consecutive_success |->
        IF value.healthy.some THEN value.healthy.successes ELSE DefaultThreshold,
     consecutive_failure |->
        IF value.unhealthy.some THEN value.unhealthy.http_failures
        ELSE DefaultThreshold,
     validate |-> value.healthy.some /\ value.healthy.http_statuses # {},
     statuses |-> IF value.healthy.some THEN value.healthy.http_statuses ELSE {},
     uri_set |-> value.path_ok]

\* impl From<config::HealthCheck> for Box<dyn HealthCheckTrait>
HealthCheckFrom(value) ==
    IF value.type = "TCP" THEN TcpHealthCheckFrom(value)
    ELSE HttpHealthCheckFrom(value)

\* HealthCheck::health_threshold(success)
HealthThreshold(hc, success) ==
    IF success THEN hc.consecutive_success ELSE hc.consecutive_failure

\* the result of one probe: "error" (timeout, refused), "connected" (TCP),
\* or the status of the response (HTTP/HTTPS)
Outcomes(hc) == IF hc.kind = "tcp" THEN {"error", "connected"}
                ELSE {"error"} \cup {ToString(s) : s \in HttpStatuses}

\* whether check() returns Ok. TCP: the connection is made. HTTP/HTTPS: a
\* response was read and the validator closure of lines 364-373 accepts its
\* status; when no closure was installed (HttpHealthCheck::new, line 322,
\* leaves validator at None) the check accepts the status 200 only.
ProbeSucceeds(hc, outcome) ==
    /\ outcome # "error"
    /\ \/ hc.kind = "tcp"
       \/ hc.validate /\ \E s \in hc.statuses : ToString(s) = outcome
       \/ ~hc.validate /\ outcome = ToString(DefaultStatus)

\* Health::default(): a backend not yet probed counts as healthy
DefaultHealth == [healthy |-> TRUE, cnt |-> 0]

\* Health::observe_health(health, flip_threshold)
ObserveHealth(h, health, flip_threshold) ==
    IF h.healthy # health
    THEN IF h.cnt + 1 >= flip_threshold
         THEN [healthy |-> health, cnt |-> 0]
         ELSE [h EXCEPT !.cnt = h.cnt + 1]
    ELSE [h EXCEPT !.cnt = 0]

\* ------------------------------------------------ construction (65-104)
\* (mutant) a backend counts as unhealthy until a probe has succeeded
LBTryFrom_FailClosed(upstream, gen) ==
    [inner |-> upstream, lb_of |-> upstream, gen |-> gen,
     hc |-> IF upstream.checks.some THEN HealthCheckFrom(upstream.checks)
            ELSE NoHealthCheck,
     health_check_frequency |->
        IF ~upstream.checks.some THEN 0
        ELSE IF upstream.checks.healthy.some
             THEN upstream.checks.healthy.interval ELSE DefaultFrequency,
     service |-> TRUE, backends |-> {},
     health |-> [n \in Nodes |-> [healthy |-> FALSE, cnt |-> 0]], rr |-> 0,
     runtime |-> FALSE, watch |-> FALSE, started |-> FALSE, phase |-> "owned"]

\* impl TryFrom<config::Upstream> for LB<BS> (and SelectionLB): the load
\* balancer starts with no backend (the service's first update() fills it),
\* the health check is installed only when upstream.checks is Some, and the
\* background service is created in every case (lines 272-279).
\* started = FALSE: start_health_check has not run yet.
LBTryFrom(upstream, gen) ==
    [inner |-> upstream, lb_of |-> upstream, gen |-> gen,
     hc |-> IF upstream.checks.some THEN HealthCheckFrom(upstream.checks)
            ELSE NoHealthCheck,
     health_check_frequency |->
        IF ~upstream.checks.some THEN 0
        ELSE IF upstream.checks.healthy.some
             THEN upstream.checks.healthy.interval ELSE DefaultFrequency,
     service |-> TRUE, backends |-> {},
     health |-> [n \in Nodes |-> DefaultHealth], rr |-> 0,
     runtime |-> FALSE, watch |-> FALSE, started |-> FALSE, phase |-> "owned"]

\* what the construction of the unit logs: the warning of lines 337-341 when
\* the path of an HTTP/HTTPS check gives no URI
ConstructionLog(upstream, gen) ==
    IF upstream.checks.some /\ upstream.checks.type # "TCP"
       /\ ~upstream.checks.path_ok
    THEN {<<"invalid_uri_path", gen>>} ELSE {}

\* ProxyUpstream::take_background_service
TakeBackgroundService(u) == u.service

\* ProxyUpstream::start_health_check: the unit after the call
StartHealthCheck(u) ==
    IF TakeBackgroundService(u)
    THEN [u EXCEPT !.service = FALSE, !.watch = TRUE, !.runtime = TRUE,
                   !.started = TRUE]
    ELSE [u EXCEPT !.started = TRUE]

\* the watch channel, the task spawned on the runtime and the runtime itself
\* task: none | spawned | probing | sleeping | exited | aborted
\* shutdown: none | requested | released
NoRt == [signal |-> FALSE, task |-> "none", node |-> 0, shutdown |-> "none"]
SpawnedRt(u) == IF TakeBackgroundService(u)
                THEN [NoRt EXCEPT !.task = "spawned"] ELSE NoRt

NoRuns == [n \in Nodes |->
            [fail |-> 0, succ |-> 0, probes |-> 0, flip_fail |-> 0,
             flip_succ |-> 0, cut |-> 0, last |-> "none"]]

\* ------------------------------------------------ ownership (Arc counts)
HeldBy(h, map, held, built) ==
    \/ \E id \in Ids : map[id] = h
    \/ held = h
    \/ \E i \in 1..Len(built) : built[i] = h

\* A unit whose last Arc is gone starts its Drop.
DropUnreferenced(us, map, held, built) ==
    [h \in 1..Len(us) |->
        IF us[h].phase = "owned" /\ us[h].started /\ ~HeldBy(h, map, held, built)
        THEN [us[h] EXCEPT !.phase = "drop_stop"] ELSE us[h]]

Running == loader.pc # "exited"

\* ------------------------------------------------ the registry (386-426)
EmptyMap == [id \in Ids |-> 0]

HasDuplicateIds(built, us) ==
    \E i, j \in 1..Len(built) : i < j /\ us[built[i]].inner.id = us[built[j]].inner.id

\* the last unit of the list that carries the identifier, 0 when none does
RECURSIVE LastWithId(_, _, _, _)
LastWithId(id, built, us, i) ==
    IF i = 0 THEN 0
    ELSE IF us[built[i]].inner.id = id THEN built[i]
    ELSE LastWithId(id, built, us, i - 1)

\* MapOperations::reload_resources (spec 4.4): the whole mapping is replaced
\* in one step, keyed by each unit's identifier
ReloadResources(built, us) ==
    [id \in Ids |-> LastWithId(id, built, us, Len(built))]

\* upstream configurations loaded in Spec
TcpChecks == SomeChecks("TCP", TRUE, NoHealthy, NoUnhealthy)
Catalog ==
    { Upstream("a", "RoundRobin", 1, TRUE, TcpChecks),
      Upstream("a", "RoundRobin", 1, TRUE, NoChecks),
      Upstream("b", "RoundRobin", 1, TRUE, NoChecks),
      Upstream("b", "RoundRobin", 0, TRUE, NoChecks),
      Upstream("b", "RoundRobin", 1, FALSE, NoChecks) }
Configs == {<<x>> : x \in Catalog} \cup {<<x, y>> : x, y \in Catalog}

IdleLoader ==
    [pc |-> "idle", cfg |-> <<>>, i |-> 0, built |-> <<>>, calls |-> 0,
     before |-> EmptyMap]

\* load_static_upstreams is called with a configuration
LoadBegin ==
    /\ Running
    /\ loader.pc \in {"idle", "returnedOk", "returnedErr"}
    /\ loader.calls < MaxLoads
    /\ \E cfg \in Configs :
         /\ Len(units) + Len(cfg) <= MaxUnits
         /\ loader' = [pc |-> "building", cfg |-> cfg, i |-> 1, built |-> <<>>,
                       calls |-> loader.calls + 1, before |-> UPSTREAM_MAP]
    /\ UNCHANGED <<UPSTREAM_MAP, units, rt, hist, req, log, budget>>

\* (mutant) the empty node list is logged and the upstream built all the same
LoadEmptyNodes_Continue ==
    /\ Running
    /\ loader.pc = "building" /\ loader.i <= Len(loader.cfg)
    /\ loader.cfg[loader.i].nodes = 0
    /\ units' = Append(units, LBTryFrom(loader.cfg[loader.i], loader.calls))
    /\ rt' = Append(rt, NoRt)
    /\ hist' = Append(hist, NoRuns)
    /\ loader' = [loader EXCEPT !.pc = "starting"]
    /\ log' = log \cup {<<"empty_nodes", loader.calls>>}
    /\ UNCHANGED <<UPSTREAM_MAP, req, budget>>

\* lines 397-408: an upstream without nodes ends the process
LoadEmptyNodes ==
    /\ Running
    /\ loader.pc = "building" /\ loader.i <= Len(loader.cfg)
    /\ loader.cfg[loader.i].nodes = 0
    /\ loader' = [loader EXCEPT !.pc = "exited"]
    /\ log' = log \cup {<<"empty_nodes", loader.calls>>}
    /\ UNCHANGED <<UPSTREAM_MAP, units, rt, hist, req, budget>>

\* (mutant) the units collected before the failure are installed
LoadConstructErr_InstallsBuilt ==
    /\ Running
    /\ loader.pc = "building" /\ loader.i <= Len(loader.cfg)
    /\ loader.cfg[loader.i].nodes > 0
    /\ ~loader.cfg[loader.i].nodes_ok
    /\ UPSTREAM_MAP' = ReloadResources(loader.built, units)
    /\ loader' = [loader EXCEPT !.pc = "returnedErr", !.built = <<>>]
    /\ units' = DropUnreferenced(units, UPSTREAM_MAP', req.held, <<>>)
    /\ log' = log \cup {<<"construct_failed", loader.calls>>}
    /\ UNCHANGED <<rt, hist, req, budget>>

\* lines 409-418 with line 68: SelectionLB::try_from fails, the error is
\* returned and the units collected so far are dropped with the iterator
LoadConstructErr ==
    /\ Running
    /\ loader.pc = "building" /\ loader.i <= Len(loader.cfg)
    /\ loader.cfg[loader.i].nodes > 0
    /\ ~loader.cfg[loader.i].nodes_ok
    /\ loader' = [loader EXCEPT !.pc = "returnedErr", !.built = <<>>]
    /\ units' = DropUnreferenced(units, UPSTREAM_MAP, req.held, <<>>)
    /\ log' = log \cup {<<"construct_failed", loader.calls>>}
    /\ UNCHANGED <<UPSTREAM_MAP, rt, hist, req, budget>>

\* (mutant) the unit is put into the registry as soon as it exists
LoadNewLB_InstallEarly ==
    /\ Running
    /\ loader.pc = "building" /\ loader.i <= Len(loader.cfg)
    /\ loader.cfg[loader.i].nodes > 0
    /\ loader.cfg[loader.i].nodes_ok
    /\ units' = Append(units, LBTryFrom(loader.cfg[loader.i], loader.calls))
    /\ rt' = Append(rt, NoRt)
    /\ hist' = Append(hist, NoRuns)
    /\ loader' = [loader EXCEPT !.pc = "starting"]
    /\ UPSTREAM_MAP' =
          [UPSTREAM_MAP EXCEPT ![loader.cfg[loader.i].id] = Len(units) + 1]
    /\ log' = log \cup ConstructionLog(loader.cfg[loader.i], loader.calls)
    /\ UNCHANGED <<req, budget>>

\* lines 66-71: the ProxyUpstream value exists, start_health_check has not
\* run yet
LoadNewLB ==
    /\ Running
    /\ loader.pc = "building" /\ loader.i <= Len(loader.cfg)
    /\ loader.cfg[loader.i].nodes > 0
    /\ loader.cfg[loader.i].nodes_ok
    /\ units' = Append(units, LBTryFrom(loader.cfg[loader.i], loader.calls))
    /\ rt' = Append(rt, NoRt)
    /\ hist' = Append(hist, NoRuns)
    /\ loader' = [loader EXCEPT !.pc = "starting"]
    /\ log' = log \cup ConstructionLog(loader.cfg[loader.i], loader.calls)
    /\ UNCHANGED <<UPSTREAM_MAP, req, budget>>

\* lines 72-73 and 413: start_health_check, then Arc::new into the vector
LoadStartHealthCheck ==
    /\ Running
    /\ loader.pc = "starting"
    /\ LET h == Len(units) IN
         /\ units' = [units EXCEPT ![h] = StartHealthCheck(units[h])]
         /\ rt' = [rt EXCEPT ![h] = SpawnedRt(units[h])]
         /\ loader' = [loader EXCEPT !.pc = "building", !.i = loader.i + 1,
                                     !.built = Append(loader.built, h)]
    /\ UNCHANGED <<UPSTREAM_MAP, hist, req, log, budget>>

\* (mutant) the collected units are inserted one by one, nothing is removed
LoadInstall_InsertOnly ==
    /\ Running
    /\ loader.pc = "building" /\ loader.i > Len(loader.cfg)
    /\ ~HasDuplicateIds(loader.built, units)
    /\ UPSTREAM_MAP' =
          [id \in Ids |->
              IF ReloadResources(loader.built, units)[id] # 0
              THEN ReloadResources(loader.built, units)[id]
              ELSE UPSTREAM_MAP[id]]
    /\ loader' = [loader EXCEPT !.pc = "returnedOk", !.built = <<>>]
    /\ units' = DropUnreferenced(units, UPSTREAM_MAP', req.held, <<>>)
    /\ UNCHANGED <<rt, hist, req, log, budget>>

\* (mutant) a replaced unit is stopped though a request still holds it
LoadInstall_StopsReplaced ==
    /\ Running
    /\ loader.pc = "building" /\ loader.i > Len(loader.cfg)
    /\ ~HasDuplicateIds(loader.built, units)
    /\ UPSTREAM_MAP' = ReloadResources(loader.built, units)
    /\ loader' = [loader EXCEPT !.pc = "returnedOk", !.built = <<>>]
    /\ units' = DropUnreferenced(units, UPSTREAM_MAP', 0, <<>>)
    /\ UNCHANGED <<rt, hist, req, log, budget>>

\* lines 421-425: the collected units replace the registry; reload_resources
\* returns nothing, so the load returns Ok(())
LoadInstall ==
    /\ Running
    /\ loader.pc = "building" /\ loader.i > Len(loader.cfg)
    /\ ~HasDuplicateIds(loader.built, units)
    /\ UPSTREAM_MAP' = ReloadResources(loader.built, units)
    /\ loader' = [loader EXCEPT !.pc = "returnedOk", !.built = <<>>]
    /\ units' = DropUnreferenced(units, UPSTREAM_MAP', req.held, <<>>)
    /\ UNCHANGED <<rt, hist, req, log, budget>>

\* (mutant) the later unit is installed and nothing is logged
LoadInstallDuplicateSilent ==
    /\ Running
    /\ loader.pc = "building" /\ loader.i > Len(loader.cfg)
    /\ HasDuplicateIds(loader.built, units)
    /\ UPSTREAM_MAP' = ReloadResources(loader.built, units)
    /\ loader' = [loader EXCEPT !.pc = "returnedOk", !.built = <<>>]
    /\ units' = DropUnreferenced(units, UPSTREAM_MAP', req.held, <<>>)
    /\ UNCHANGED <<rt, hist, req, log, budget>>

\* reload_resources given two units with one identifier (spec 4.4: reject,
\* or log clearly): the error is logged and the later unit is installed
LoadInstallDuplicateLogged ==
    /\ Running
    /\ loader.pc = "building" /\ loader.i > Len(loader.cfg)
    /\ HasDuplicateIds(loader.built, units)
    /\ UPSTREAM_MAP' = ReloadResources(loader.built, units)
    /\ log' = log \cup {<<"duplicate_id", loader.calls>>}
    /\ loader' = [loader EXCEPT !.pc = "returnedOk", !.built = <<>>]
    /\ units' = DropUnreferenced(units, UPSTREAM_MAP', req.held, <<>>)
    /\ UNCHANGED <<rt, hist, req, budget>>

\* reload_resources given two units with one identifier: rejected as a
\* fatal configuration error, the registry untouched
LoadInstallDuplicateFatal ==
    /\ Running
    /\ loader.pc = "building" /\ loader.i > Len(loader.cfg)
    /\ HasDuplicateIds(loader.built, units)
    /\ log' = log \cup {<<"duplicate_id", loader.calls>>}
    /\ loader' = [loader EXCEPT !.pc = "exited"]
    /\ UNCHANGED <<UPSTREAM_MAP, units, rt, hist, req, budget>>

\* ------------------------------------------------ selection (115-133)
Keys == 0..MaxKey
HashMod == 2 * MaxNodes + 1

\* the hash of a selection key and the rehash used by the fallback steps of
\* the weighted iterator, over a small hash space
KeyHash(key) == (3 * key + 1) % HashMod
Rehash(x) == (x + 2) % HashMod

\* Backends::ready: healthy (and in the health table)
Ready(u, n) == n \in u.backends /\ u.health[n].healthy
ReadySet(u) == {n \in u.backends : u.health[n].healthy}

\* the n-th backend of the sorted backend list, n counted from 0
NthBackend(u, n) ==
    CHOOSE b \in u.backends : Cardinality({c \in u.backends : c < b}) = n

\* KetamaHashing: every backend owns two points of the ring, node n the
\* points n - 1 and n - 1 + MaxNodes; RingFrom is the first point at or
\* after p, clockwise
RingSize == 2 * MaxNodes
RingOwner(p) == (p % MaxNodes) + 1
RingPoints(u) == {p \in 0..(RingSize - 1) : RingOwner(p) \in u.backends}
RingFrom(u, p) ==
    LET at == {q \in RingPoints(u) : q >= p} IN
    IF at # {} THEN CHOOSE q \in at : \A r \in at : q <= r
    ELSE CHOOSE q \in RingPoints(u) : \A r \in RingPoints(u) : q <= r

\* BackendSelection::iter(key): the state of the iterator. RoundRobin takes
\* the counter, FVNHash the hash of the key, KetamaHashing the ring point of
\* the key.
IterInit(u, key) ==
    IF u.inner.type = "RoundRobin" THEN u.rr
    ELSE IF u.inner.type = "Fnv" THEN KeyHash(key)
    ELSE RingFrom(u, KeyHash(key) % RingSize)

\* the backend the iterator stands at
IterBackend(u, st) ==
    IF u.inner.type = "Ketama" THEN RingOwner(st)
    ELSE NthBackend(u, st % Cardinality(u.backends))

\* BackendIter::next: the counter's next value, the rehashed index, the
\* next point of the ring
IterNext(u, st) ==
    IF u.inner.type = "RoundRobin" THEN st + 1
    ELSE IF u.inner.type = "Fnv" THEN Rehash(st)
    ELSE RingFrom(u, (st + 1) % RingSize)

\* the iterator repeats itself after this many steps: a backend it has not
\* reached by then is never reached
IterPeriod(u) ==
    IF u.inner.type = "RoundRobin" THEN Cardinality(u.backends)
    ELSE IF u.inner.type = "Fnv" THEN HashMod
    ELSE RingSize

\* LoadBalancer::select(key, max_iterations): the first candidate that is
\* ready, among at most max_iterations candidates; 0 is None.
\* The result is [backend, steps taken]; once the iterator repeats itself
\* the remaining steps find nothing and are not walked through.
RECURSIVE SelectFrom(_, _, _, _)
SelectFrom(u, st, i, max_iterations) ==
    IF i >= max_iterations \/ i >= IterPeriod(u)
    THEN [backend |-> 0, steps |-> max_iterations]
    ELSE IF Ready(u, IterBackend(u, st))
         THEN [backend |-> IterBackend(u, st), steps |-> i + 1]
         ELSE SelectFrom(u, IterNext(u, st), i + 1, max_iterations)

\* the results select may give. Random draws every candidate afresh: the
\* first draw is returned when it is ready, a later draw may hit any ready
\* backend, or none within the limit.
Select(u, key, max_iterations) ==
    IF u.backends = {} \/ max_iterations = 0 THEN {[backend |-> 0, steps |-> 0]}
    ELSE IF u.inner.type = "Random"
    THEN {[backend |-> b, steps |-> 1] : b \in ReadySet(u)}
         \cup IF ReadySet(u) # u.backends
              THEN {[backend |-> 0, steps |-> max_iterations]} ELSE {}
    ELSE {SelectFrom(u, IterInit(u, key), 0, max_iterations)}

\* (mutant) when nothing is ready the first backend is returned
SelectBackend_Fallback(u, key) ==
    {IF r.backend = 0 /\ u.backends # {}
     THEN [backend |-> NthBackend(u, 0), steps |-> r.steps] ELSE r :
        r \in Select(u, key, CandidateLimit)}

\* (mutant) the hash of the key is taken modulo the number of healthy
\* backends
SelectBackend_ModuloReady(u, key) ==
    IF u.inner.type \in HashTypes /\ ReadySet(u) # {}
    THEN {[backend |->
             CHOOSE b \in ReadySet(u) :
                Cardinality({c \in ReadySet(u) : c < b})
                    = KeyHash(key) % Cardinality(ReadySet(u)),
           steps |-> 1]}
    ELSE Select(u, key, CandidateLimit)

\* (mutant) the key is not used: any healthy backend is returned
SelectBackend_AnyReady(u, key) ==
    IF u.inner.type \in HashTypes /\ ReadySet(u) # {}
    THEN {[backend |-> b, steps |-> 1] : b \in ReadySet(u)}
    ELSE Select(u, key, CandidateLimit)

\* ProxyUpstream::select_backend: every variant of SelectionLB selects with
\* the key and at most 256 candidates
SelectBackend(u, key) == Select(u, key, CandidateLimit)

\* ------------------------------------------------ the request path
\* what the request remembers of its last selection with a key: the result,
\* the healthy set and the backend set it was made on, and whether another
\* key was selected with since
NoMemo == [done |-> FALSE, sel |-> 0, ready |-> {}, cands |-> {}, between |-> FALSE]
Remember(memo, u, key, backend) ==
    IF u.inner.type \notin HashTypes THEN memo
    ELSE [k \in Keys |->
            IF k = key
            THEN [done |-> TRUE, sel |-> backend, ready |-> ReadySet(u),
                  cands |-> u.backends, between |-> FALSE]
            ELSE [memo[k] EXCEPT !.between = memo[k].done]]

\* the headers of the outgoing request: the values carried for each name
NoRequestHeaders == [name \in HeaderNames |-> <<>>]

NoReq ==
    [held |-> 0, id |-> "a", fetched |-> FALSE, got |-> 0, old |-> 0, load |-> 0,
     selected |-> FALSE, sel |-> 0, ready |-> {}, cands |-> {},
     prev |-> NoMemo, memo |-> [k \in Keys |-> NoMemo],
     headers |-> NoRequestHeaders, original |-> NoRequestHeaders,
     rewritten |-> FALSE]

\* (mutant) a miss falls back to a unit stored under another identifier
Fetch_FallsBack(id) ==
    /\ Running
    /\ req.held = 0
    /\ \E other \in Ids :
         LET got == IF UPSTREAM_MAP[id] # 0 THEN UPSTREAM_MAP[id]
                    ELSE UPSTREAM_MAP[other]
         IN req' = [NoReq EXCEPT !.held = got, !.id = id, !.fetched = TRUE,
                                 !.got = got, !.old = loader.before[id],
                                 !.load = loader.calls]
    /\ log' = IF UPSTREAM_MAP[id] = 0 THEN log \cup {<<"not_found", loader.calls>>}
              ELSE log
    /\ UNCHANGED <<UPSTREAM_MAP, units, rt, hist, loader, budget>>

\* upstream_fetch(id): the Arc stored under id is cloned, a miss is logged
Fetch(id) ==
    /\ Running
    /\ req.held = 0
    /\ req' = [NoReq EXCEPT !.held = UPSTREAM_MAP[id], !.id = id,
                            !.fetched = TRUE, !.got = UPSTREAM_MAP[id],
                            !.old = loader.before[id], !.load = loader.calls]
    /\ log' = IF UPSTREAM_MAP[id] = 0 THEN log \cup {<<"not_found", loader.calls>>}
              ELSE log
    /\ UNCHANGED <<UPSTREAM_MAP, units, rt, hist, loader, budget>>

\* select_backend on the unit the request holds
SelectBackendCall(key) ==
    /\ Running
    /\ req.held # 0
    /\ LET u == units[req.held] IN
       \E r \in SelectBackend(u, key) :
         /\ req' = [req EXCEPT !.selected = TRUE, !.sel = r.backend,
                               !.ready = ReadySet(u), !.cands = u.backends,
                               !.prev = req.memo[key],
                               !.memo = Remember(req.memo, u, key, r.backend)]
         /\ units' = IF u.inner.type = "RoundRobin" /\ u.backends # {}
                     THEN [units EXCEPT ![req.held].rr =
                             (u.rr + r.steps) % Cardinality(u.backends)]
                     ELSE units
    /\ UNCHANGED <<UPSTREAM_MAP, rt, hist, loader, log, budget>>

\* RequestHeader::insert_header(name, value): a name that is no legal header
\* name or a value that is no legal header value is rejected and the request
\* left as it is (the caller drops the Err, line 150); if not, the value
\* replaces whatever the name carried
InsertHeader(headers, raw, value) ==
    IF raw \in LegalNames /\ value \in ValidValues
    THEN [headers EXCEPT ![Canon(raw)] = <<value>>]
    ELSE headers

\* the loop of lines 149-151 over the entries in the given order
RECURSIVE RewriteIn(_, _, _)
RewriteIn(headers, config, order) ==
    IF order = <<>> THEN headers
    ELSE RewriteIn(InsertHeader(headers, Head(order), config[Head(order)]),
                   config, Tail(order))

\* the entries of upstream.headers (none when it is None) and the orders in
\* which the iterator of the HashMap may give them
Configured(config) == {raw \in RawNames : config[raw] # "absent"}
Orders(S) ==
    {o \in [1..Cardinality(S) -> S] :
        \A i, j \in 1..Cardinality(S) : i # j => o[i] # o[j]}

\* (mutant) a header the request carries already is kept
UpstreamHeaderRewrite_KeepsExisting ==
    /\ Running
    /\ req.held # 0
    /\ LET config == units[req.held].inner.headers IN
       \E order \in Orders({raw \in Configured(config) :
                                req.headers[Canon(raw)] = <<>>}) :
          req' = [req EXCEPT !.original = req.headers,
                             !.headers = RewriteIn(req.headers, config, order),
                             !.rewritten = TRUE]
    /\ UNCHANGED <<UPSTREAM_MAP, units, rt, hist, loader, log, budget>>

\* ProxyUpstream::upstream_header_rewrite on the outgoing request
UpstreamHeaderRewrite ==
    /\ Running
    /\ req.held # 0
    /\ LET config == units[req.held].inner.headers IN
       \E order \in Orders(Configured(config)) :
          req' = [req EXCEPT !.original = req.headers,
                             !.headers = RewriteIn(req.headers, config, order),
                             !.rewritten = TRUE]
    /\ UNCHANGED <<UPSTREAM_MAP, units, rt, hist, loader, log, budget>>

\* the request ends and gives up its Arc
Release ==
    /\ Running
    /\ req.held # 0
    /\ req' = [req EXCEPT !.held = 0]
    /\ units' = DropUnreferenced(units, UPSTREAM_MAP, 0, loader.built)
    /\ UNCHANGED <<UPSTREAM_MAP, rt, hist, loader, log, budget>>

\* ------------------------------------------------ Drop (155-159, 196-214)
ReceiverAlive(r) == r.task \in {"spawned", "probing", "sleeping"}

\* (mutant) the cancellation ends the service where it stands
StopHealthCheck_Preempts(h) ==
    /\ Running
    /\ units[h].phase = "drop_stop"
    /\ units' = [units EXCEPT ![h].watch = FALSE, ![h].phase = "drop_runtime"]
    /\ rt' = IF units[h].watch /\ ReceiverAlive(rt[h])
             THEN [rt EXCEPT ![h].signal = TRUE, ![h].task = "exited"] ELSE rt
    /\ UNCHANGED <<UPSTREAM_MAP, hist, loader, req, log, budget>>

\* stop_health_check: the sender is taken and true is sent; a send to a
\* channel without receiver fails and is ignored
StopHealthCheck(h) ==
    /\ Running
    /\ units[h].phase = "drop_stop"
    /\ units' = [units EXCEPT ![h].watch = FALSE, ![h].phase = "drop_runtime"]
    /\ rt' = IF units[h].watch /\ ReceiverAlive(rt[h])
             THEN [rt EXCEPT ![h].signal = TRUE] ELSE rt
    /\ UNCHANGED <<UPSTREAM_MAP, hist, loader, req, log, budget>>

\* (mutant) drop shuts the runtime down itself and waits for its task
DropRuntime_Waits(h) ==
    /\ Running
    /\ units[h].phase = "drop_runtime"
    /\ ~ReceiverAlive(rt[h])
    /\ units' = [units EXCEPT ![h].runtime = FALSE, ![h].phase = "dropped"]
    /\ rt' = IF units[h].runtime THEN [rt EXCEPT ![h].shutdown = "requested"]
             ELSE rt
    /\ log' = IF units[h].runtime
              THEN log \cup {<<"runtime_shutdown", units[h].gen>>} ELSE log
    /\ UNCHANGED <<UPSTREAM_MAP, hist, loader, req, budget>>

\* (mutant) the runtime is taken and never shut down
DropRuntime_Leaks(h) ==
    /\ Running
    /\ units[h].phase = "drop_runtime"
    /\ units' = [units EXCEPT ![h].runtime = FALSE, ![h].phase = "dropped"]
    /\ UNCHANGED <<UPSTREAM_MAP, rt, hist, loader, req, log, budget>>

\* drop, lines 202-212: the runtime is moved into a blocking task that will
\* shut it down; drop returns
DropRuntime(h) ==
    /\ Running
    /\ units[h].phase = "drop_runtime"
    /\ units' = [units EXCEPT ![h].runtime = FALSE, ![h].phase = "dropped"]
    /\ rt' = IF units[h].runtime THEN [rt EXCEPT ![h].shutdown = "requested"]
             ELSE rt
    /\ log' = IF units[h].runtime
              THEN log \cup {<<"runtime_shutdown", units[h].gen>>} ELSE log
    /\ UNCHANGED <<UPSTREAM_MAP, hist, loader, req, budget>>

\* the blocking task: runtime.shutdown_timeout(1 s); a task that has not
\* returned by then is dropped at its await point
ShutdownTimeout(h) ==
    /\ Running
    /\ rt[h].shutdown = "requested"
    /\ rt' = [rt EXCEPT ![h].shutdown = "released",
                        ![h].task = IF ReceiverAlive(rt[h]) THEN "aborted"
                                    ELSE rt[h].task]
    /\ UNCHANGED <<UPSTREAM_MAP, units, hist, loader, req, log, budget>>

\* ------------------------------------------------ the service (90-100)
\* LoadBalancer::start, first pass: the signal is checked, update() takes
\* the backends from the discovery, run_health_check starts its first probe;
\* without health check there is nothing to repeat and the service returns
ServiceStart(h) ==
    /\ Running
    /\ rt[h].task = "spawned"
    /\ IF rt[h].signal
       THEN /\ rt' = [rt EXCEPT ![h].task = "exited"]
            /\ UNCHANGED units
       ELSE /\ units' = [units EXCEPT ![h].backends = 1..units[h].inner.nodes]
            /\ rt' = IF units[h].hc.set
                     THEN [rt EXCEPT ![h].task = "probing", ![h].node = 1]
                     ELSE [rt EXCEPT ![h].task = "exited"]
    /\ UNCHANGED <<UPSTREAM_MAP, hist, loader, req, log, budget>>

\* the probe history of a node after one more result: the runs of failures
\* and of successes that end the history, the number of probes, the length
\* of the run that ended with the last flip to unhealthy and to healthy, and
\* the length of the last run of successes that a failure cut short, and
\* the result of the last probe
Observed(r, outcome, success, was, now) ==
    [fail |-> IF success THEN 0 ELSE r.fail + 1,
     succ |-> IF success THEN r.succ + 1 ELSE 0,
     probes |-> r.probes + 1,
     flip_fail |-> IF was /\ ~now THEN r.fail + 1 ELSE r.flip_fail,
     flip_succ |-> IF ~was /\ now THEN r.succ + 1 ELSE r.flip_succ,
     cut |-> IF ~success /\ ~was /\ r.succ > 0 THEN r.succ ELSE r.cut,
     last |-> outcome]

\* Backends::run_health_check: the probe in flight ends and its result is
\* observed with the threshold of the check; the next backend is probed, or
\* the service sleeps until the next cycle
ProbeDone(h, outcome) ==
    /\ Running
    /\ rt[h].task = "probing"
    /\ budget > 0
    /\ outcome \in Outcomes(units[h].hc)
    /\ LET n == rt[h].node
           ok == ProbeSucceeds(units[h].hc, outcome)
           was == units[h].health[n]
           now == ObserveHealth(was, ok, HealthThreshold(units[h].hc, ok))
       IN /\ units' = [units EXCEPT ![h].health[n] = now]
          /\ hist' = [hist EXCEPT ![h][n] =
                        Observed(hist[h][n], outcome, ok, was.healthy,
                                 now.healthy)]
          /\ rt' = IF n < units[h].inner.nodes
                   THEN [rt EXCEPT ![h].node = n + 1]
                   ELSE [rt EXCEPT ![h].task = "sleeping", ![h].node = 0]
    /\ budget' = budget - 1
    /\ UNCHANGED <<UPSTREAM_MAP, loader, req, log>>

\* top of the loop after the sleep: the signal is checked, then the next
\* round of probes starts
ServiceWake(h) ==
    /\ Running
    /\ rt[h].task = "sleeping"
    /\ rt' = IF rt[h].signal THEN [rt EXCEPT ![h].task = "exited"]
             ELSE [rt EXCEPT ![h].task = "probing", ![h].node = 1]
    /\ UNCHANGED <<UPSTREAM_MAP, units, hist, loader, req, log, budget>>

\* ------------------------------------------------ specifications
AllOutcomes == {"error", "connected"} \cup {ToString(s) : s \in HttpStatuses}

Init ==
    /\ UPSTREAM_MAP = EmptyMap
    /\ units = <<>>
    /\ rt = <<>>
    /\ hist = <<>>
    /\ loader = IdleLoader
    /\ req = NoReq
    /\ log = {}
    /\ budget = ProbeBudget

Load ==
    \/ LoadBegin
    \/ LoadEmptyNodes
    \/ LoadConstructErr
    \/ LoadNewLB
    \/ LoadStartHealthCheck
    \/ LoadInstall
    \/ LoadInstallDuplicateLogged
    \/ LoadInstallDuplicateFatal

Request ==
    \/ \E id \in Ids : Fetch(id)
    \/ \E key \in Keys : SelectBackendCall(key)
    \/ Release

Lifecycle ==
    \E h \in 1..Len(units) :
        \/ StopHealthCheck(h)
        \/ DropRuntime(h)
        \/ ShutdownTimeout(h)

Service ==
    \E h \in 1..Len(units) :
        \/ ServiceStart(h)
        \/ \E outcome \in AllOutcomes : ProbeDone(h, outcome)
        \/ ServiceWake(h)

Next == Load \/ Request \/ Lifecycle \/ Service

Spec == Init /\ [][Next]_vars

\* Fair scheduling of the thread that runs a Drop and of the blocking task
\* that shuts the runtime down: neither waits for anything, so each of
\* their steps is taken once it can be. Nothing is assumed of the service.
DropFairness ==
    \A h \in Handles :
        /\ WF_vars(h <= Len(units) /\ StopHealthCheck(h))
        /\ WF_vars(h <= Len(units) /\ DropRuntime(h))
        /\ WF_vars(h <= Len(units) /\ ShutdownTimeout(h))

SpecLive == Init /\ [][Next]_vars /\ DropFairness

\* One upstream, loaded and installed, its service spawned: the state after
\* load_static_upstreams(<<c>>) has returned Ok.
Loaded(c, probes) ==
    /\ UPSTREAM_MAP = [EmptyMap EXCEPT ![c.id] = 1]
    /\ units = <<StartHealthCheck(LBTryFrom(c, 1))>>
    /\ rt = <<SpawnedRt(LBTryFrom(c, 1))>>
    /\ hist = <<NoRuns>>
    /\ loader = [IdleLoader EXCEPT !.pc = "returnedOk", !.cfg = <<c>>, !.i = 2,
                                   !.calls = 1]
    /\ req = NoReq
    /\ log = ConstructionLog(c, 1)
    /\ budget = probes

\* the health checks of SpecHealth: every type, with and without the
\* healthy and the unhealthy block, every threshold up to MaxThreshold, the
\* HTTP and HTTPS checks with a path that gives a URI and one that does not
HealthyBlocks ==
    {NoHealthy}
    \cup {SomeHealthy(s, st) : s \in 1..MaxThreshold, st \in {{}, {200}, {500}}}
UnhealthyBlocks ==
    {NoUnhealthy}
    \cup {SomeUnhealthy(t, h) : t \in 1..MaxThreshold, h \in 1..MaxThreshold}
HealthChecks ==
    {SomeChecks("TCP", TRUE, h, u) : h \in HealthyBlocks, u \in UnhealthyBlocks}
    \cup {SomeChecks(t, p, h, u) :
            t \in {"HTTP", "HTTPS"}, p \in BOOLEAN,
            h \in HealthyBlocks, u \in UnhealthyBlocks}

InitHealth ==
    \E ck \in HealthChecks, n \in 1..MaxNodes :
        Loaded(Upstream("a", "RoundRobin", n, TRUE, ck), ProbeBudgetHealth)

SpecHealth == InitHealth /\ [][Service]_vars

\* the upstreams of SpecSelect: every selection type, with and without the
\* default TCP check
InitSelect ==
    \E ty \in SelectionTypes, n \in 1..MaxNodes, ck \in {NoChecks, TcpChecks} :
        Loaded(Upstream("a", ty, n, TRUE, ck), ProbeBudgetSelect)

SpecSelect == InitSelect /\ [][Service \/ Request]_vars

\* the header overrides and the requests of SpecRewrite: every choice of
\* entries for the names, every request carrying up to two values for each
\* header; the request holds the one unit of the registry
HeaderConfigs == [RawNames -> HeaderValues \cup {"absent"}]
CarriedValues ==
    {<<>>} \cup {<<v>> : v \in ValidValues}
    \cup {<<v, w>> : v, w \in ValidValues}
RequestHeaders == [HeaderNames -> CarriedValues]

InitRewrite ==
    \E config \in HeaderConfigs, carried \in RequestHeaders :
        LET c == WithHeaders(Upstream("a", "RoundRobin", 1, TRUE, NoChecks),
                             config)
        IN /\ UPSTREAM_MAP = [EmptyMap EXCEPT !["a"] = 1]
           /\ units = <<StartHealthCheck(LBTryFrom(c, 1))>>
           /\ rt = <<SpawnedRt(LBTryFrom(c, 1))>>
           /\ hist = <<NoRuns>>
           /\ loader = [IdleLoader EXCEPT !.pc = "returnedOk", !.cfg = <<c>>,
                                          !.i = 2, !.calls = 1]
           /\ req = [NoReq EXCEPT !.held = 1, !.fetched = TRUE, !.got = 1,
                                  !.load = 1, !.headers = carried,
                                  !.original = carried]
           /\ log = {}
           /\ budget = 0

Rewrite == UpstreamHeaderRewrite

SpecRewrite == InitRewrite /\ [][Rewrite]_vars

\* ======================================================== the claims
\* the unhealthy-threshold the configuration names for the type of check
ConfiguredFailures(c) ==
    IF c.type = "TCP" THEN c.unhealthy.tcp_failures ELSE c.unhealthy.http_failures

\* C1: with N the configured unhealthy-threshold (tcp_failures for a TCP
\* check, http_failures for an HTTP/HTTPS check), a backend turns from
\* healthy to unhealthy only at the probe that completes a run of exactly N
\* consecutive failures (N-1 consecutive failures leave it healthy), and a
\* backend with N or more consecutive failures behind it is unhealthy (the
\* Nth flips it).
C1_ThresholdDebounce ==
    \A h \in 1..Len(units) :
        LET c == units[h].inner.checks IN
        (c.some /\ c.unhealthy.some) =>
            \A n \in units[h].backends :
                /\ hist[h][n].flip_fail # 0 =>
                        hist[h][n].flip_fail = ConfiguredFailures(c)
                /\ hist[h][n].fail >= ConfiguredFailures(c) =>
                        ~units[h].health[n].healthy

\* a TCP check with tcp_failures >= 2, different from http_failures, has
\* turned a backend unhealthy at its Nth consecutive failure
C1_Witness ==
    \E h \in 1..Len(units) : \E n \in units[h].backends :
        LET c == units[h].inner.checks IN
        /\ c.some /\ c.unhealthy.some /\ c.type = "TCP"
        /\ c.unhealthy.tcp_failures >= 2
        /\ c.unhealthy.tcp_failures # c.unhealthy.http_failures
        /\ hist[h][n].flip_fail = c.unhealthy.tcp_failures
        /\ ~units[h].health[n].healthy

\* C2: an unhealthy backend turns healthy only at the probe that completes
\* healthy.successes consecutive successes; while it is unhealthy the
\* counter equals the run of successes that ends the probe history, which a
\* failed probe resets to 0, and that run is below the threshold.
C2_HealthyOnlyAfterFullRun ==
    \A h \in 1..Len(units) :
        LET c == units[h].inner.checks IN
        (c.some /\ c.healthy.some) =>
            \A n \in units[h].backends :
                /\ hist[h][n].flip_succ # 0 =>
                        hist[h][n].flip_succ = c.healthy.successes
                /\ ~units[h].health[n].healthy =>
                        /\ units[h].health[n].cnt = hist[h][n].succ
                        /\ hist[h][n].succ < c.healthy.successes

\* a run of successes of an unhealthy backend was cut by a failure, and the
\* backend turned healthy at the end of a later full run of 2 or more
C2_Witness ==
    \E h \in 1..Len(units) : \E n \in units[h].backends :
        LET c == units[h].inner.checks IN
        /\ c.some /\ c.healthy.some /\ c.healthy.successes >= 2
        /\ hist[h][n].cut >= 1
        /\ hist[h][n].flip_succ = c.healthy.successes
        /\ hist[h][n].succ = c.healthy.successes
        /\ units[h].health[n].healthy

InConfig(id, cfg) == \E i \in 1..Len(cfg) : cfg[i].id = id
LoadFinished == loader.pc \in {"returnedOk", "returnedErr", "exited"}
LoadInProgress == loader.pc \in {"building", "starting"}

\* C3: whatever upstream_fetch returns, during a reload or not, is a unit
\* whose construction is complete (start_health_check has run), built as a
\* whole from one configuration entry carrying the identifier asked for, and
\* is either the unit the registry held when the load began or a unit built
\* by this load; it is not in its Drop while the request holds it; and an
\* identifier the old registry and the new configuration both have is never
\* missed.
C3_FetchOldOrNewWhole ==
    /\ req.fetched /\ req.got # 0 =>
        /\ units[req.got].started
        /\ units[req.got].lb_of = units[req.got].inner
        /\ units[req.got].inner.id = req.id
        /\ req.got = req.old \/ units[req.got].gen = req.load
    /\ req.held # 0 => units[req.held].phase = "owned"
    /\ (req.fetched /\ req.old # 0 /\ req.load = loader.calls
            /\ InConfig(req.id, loader.cfg) /\ loader.pc # "exited") => req.got # 0

\* a fetch made while the load was building the new unit of the same
\* identifier, not yet started, returned the old unit
C3_Witness ==
    /\ loader.pc = "starting"
    /\ req.fetched /\ req.load = loader.calls
    /\ req.old # 0 /\ req.got = req.old
    /\ ~units[Len(units)].started
    /\ units[Len(units)].inner.id = req.id

\* C4: when load_static_upstreams has returned Ok, the registry maps exactly
\* the identifiers of the configuration, each to a unit this load built from
\* an entry of the configuration with that identifier.
C4_RegistryIsTheNewSet ==
    loader.pc = "returnedOk" =>
        \A id \in Ids :
            /\ UPSTREAM_MAP[id] # 0 <=> InConfig(id, loader.cfg)
            /\ UPSTREAM_MAP[id] # 0 =>
                 /\ units[UPSTREAM_MAP[id]].gen = loader.calls
                 /\ units[UPSTREAM_MAP[id]].started
                 /\ \E i \in 1..Len(loader.cfg) :
                        /\ loader.cfg[i] = units[UPSTREAM_MAP[id]].inner
                        /\ loader.cfg[i].id = id

\* the second load has returned Ok, an identifier of the old registry is
\* gone and another one is there
C4_Witness ==
    /\ loader.pc = "returnedOk" /\ loader.calls = 2
    /\ \E id \in Ids : loader.before[id] # 0 /\ UPSTREAM_MAP[id] = 0
    /\ \E id \in Ids : UPSTREAM_MAP[id] # 0

HasEmptyNodes(cfg) == \E i \in 1..Len(cfg) : cfg[i].nodes = 0
FirstEmptyNodes(cfg) ==
    CHOOSE i \in 1..Len(cfg) :
        cfg[i].nodes = 0 /\ \A j \in 1..(i - 1) : cfg[j].nodes # 0

\* C5 as claimed: a load of a configuration with an upstream without nodes
\* ends in the process exit, the registry as it was, no unit without nodes.
C5_EmptyNodesAlwaysExit ==
    /\ \A h \in 1..Len(units) : units[h].inner.nodes > 0
    /\ (LoadFinished /\ HasEmptyNodes(loader.cfg)) =>
        /\ loader.pc = "exited"
        /\ <<"empty_nodes", loader.calls>> \in log
        /\ UPSTREAM_MAP = loader.before

\* C5, amended: no unit without nodes is ever built, and a load of a
\* configuration with an upstream without nodes never changes the registry
\* and never returns Ok: it ends in the process exit when the empty upstream
\* is reached, or in an Err when the construction of an upstream before it
\* in the list has failed.
C5_EmptyNodesRejected ==
    /\ \A h \in 1..Len(units) : units[h].inner.nodes > 0
    /\ (loader.pc # "idle" /\ HasEmptyNodes(loader.cfg)) =>
        /\ UPSTREAM_MAP = loader.before
        /\ loader.pc # "returnedOk"
        /\ loader.pc = "exited" => <<"empty_nodes", loader.calls>> \in log
        /\ loader.pc = "returnedErr" =>
             \E i \in 1..(FirstEmptyNodes(loader.cfg) - 1) :
                 ~loader.cfg[i].nodes_ok

\* the process has exited at an upstream without nodes after this load had
\* built a unit for the upstream before it
C5_Witness ==
    /\ loader.pc = "exited"
    /\ HasEmptyNodes(loader.cfg)
    /\ <<"empty_nodes", loader.calls>> \in log
    /\ \E h \in 1..Len(units) : units[h].gen = loader.calls
    /\ UPSTREAM_MAP = loader.before

HasDuplicateConfigIds(cfg) ==
    \E i, j \in 1..Len(cfg) : i < j /\ cfg[i].id = cfg[j].id

C7_ProberIffChecks ==
    \A h \in 1..Len(units) :
        (units[h].started /\ units[h].phase = "owned") =>
            /\ rt[h].task # "none" <=> units[h].inner.checks.some
            /\ (units[h].runtime /\ units[h].watch) <=> rt[h].task # "none"
            /\ ~units[h].inner.checks.some => ~units[h].runtime /\ ~units[h].watch

\* C8: the Drop of a unit never waits: each of its two steps is enabled
\* whatever the service and the runtime are doing; the sender is taken (the
\* signal sent, when a receiver is left) before the shutdown is requested;
\* the shutdown is requested, not run, by the drop: when the drop is over
\* the runtime has been handed to the blocking task.
C8_DropDoesNotWait ==
    \A h \in 1..Len(units) :
        /\ (Running /\ units[h].phase = "drop_stop") =>
              /\ ENABLED StopHealthCheck(h)
              /\ rt[h].shutdown = "none"
        /\ (Running /\ units[h].phase = "drop_runtime") =>
              /\ ENABLED DropRuntime(h)
              /\ rt[h].shutdown = "none"
        /\ units[h].phase \in {"drop_runtime", "dropped"} =>
              /\ ~units[h].watch
              /\ ReceiverAlive(rt[h]) => rt[h].signal
        /\ units[h].phase = "dropped" =>
              /\ ~units[h].runtime
              /\ rt[h].task # "none" => rt[h].shutdown \in {"requested", "released"}
        /\ rt[h].shutdown # "none" => units[h].phase = "dropped"

\* the drop of a unit is over while its probe is still in flight, the signal
\* not yet looked at and the runtime not yet shut down
C8_Witness ==
    \E h \in 1..Len(units) :
        /\ units[h].phase = "dropped"
        /\ rt[h].task = "probing"
        /\ rt[h].signal
        /\ rt[h].shutdown = "requested"

Unprobed(h, n) == hist[h][n].probes = 0

\* C9: a backend no probe of which has completed is ready for selection,
\* and select_backend on an upstream whose backends are all unprobed
\* returns one of them, for every key.
C9_UnknownIsSelectable ==
    \A h \in 1..Len(units) :
        /\ \A n \in units[h].backends : Unprobed(h, n) => Ready(units[h], n)
        /\ (units[h].backends # {} /\ \A n \in units[h].backends : Unprobed(h, n)) =>
              \A key \in Keys : \A r \in SelectBackend(units[h], key) :
                  r.backend \in units[h].backends

\* select_backend has returned a backend of an upstream with a health check
\* while the first probe of that backend was still in flight
C9_Witness ==
    /\ req.held # 0 /\ req.selected /\ req.sel # 0
    /\ units[req.held].hc.set
    /\ Unprobed(req.held, req.sel)
    /\ rt[req.held].task = "probing" /\ rt[req.held].node = req.sel

\* C10: for every unit and key, a backend select_backend returns is in the
\* backend set and healthy, and with no healthy backend it returns None;
\* the same of every selection made.
C10_NoUnhealthyFallback ==
    /\ \A h \in 1..Len(units) : \A key \in Keys :
         \A r \in SelectBackend(units[h], key) :
            /\ r.backend # 0 =>
                 /\ r.backend \in units[h].backends
                 /\ units[h].health[r.backend].healthy
            /\ ReadySet(units[h]) = {} => r.backend = 0
    /\ req.selected =>
         /\ req.sel # 0 => req.sel \in req.ready /\ req.sel \in req.cands
         /\ req.ready = {} => req.sel = 0

\* a selection was made while every one of two or more backends was
\* unhealthy, and returned None
C10_Witness ==
    /\ req.selected /\ req.sel = 0
    /\ Cardinality(req.cands) >= 2
    /\ req.ready = {}

\* C13 as claimed: an HTTP/HTTPS check whose path gives no URI leaves the
\* upstream constructed with the warning logged, and the check disabled: no
\* probe is issued for the upstream and none of its backends is counted as
\* failing or turned unhealthy.
C13_MalformedPathDisablesCheck ==
    \A h \in 1..Len(units) :
        LET c == units[h].inner.checks IN
        (units[h].started /\ c.some /\ c.type # "TCP" /\ ~c.path_ok) =>
            /\ <<"invalid_uri_path", units[h].gen>> \in log
            /\ rt[h].task # "probing"
            /\ \A n \in Nodes :
                  /\ hist[h][n].probes = 0
                  /\ units[h].health[n].healthy

\* healthy.http_statuses, empty when there is no healthy block
AllowList(c) == IF c.healthy.some THEN c.healthy.http_statuses ELSE {}

\* C20 as claimed: the last probe of an HTTP/HTTPS check that got a response
\* counted as a success exactly when no allow-list is configured or the
\* status of the response is in the allow-list, and as one failure if not.
C20_AllowListOrAnyStatus ==
    \A h \in 1..Len(units) : \A n \in units[h].backends :
        LET c == units[h].inner.checks
            r == hist[h][n]
            allowed == \/ AllowList(c) = {}
                       \/ \E s \in AllowList(c) : ToString(s) = r.last
        IN (c.some /\ c.type # "TCP" /\ r.probes > 0 /\ r.last # "error") =>
              /\ allowed => r.succ >= 1 /\ r.fail = 0
              /\ ~allowed => r.fail >= 1 /\ r.succ = 0

\* the unit with the backend taken out of the healthy set
Without(u, r) == [u EXCEPT !.health[r].healthy = FALSE]

\* C11: whenever a probe takes one backend r out of the healthy set of a
\* ConsistentHash upstream, every key that select_backend gave another
\* backend than r before is given the same backend after; and in every
\* state the same holds of the removal of any one healthy backend.
C11_MinimalRemap ==
    [][\A h \in 1..Len(units) : \A r \in units[h].backends :
          (/\ units[h].inner.type = "Ketama"
           /\ r \in ReadySet(units[h])
           /\ units'[h].backends = units[h].backends
           /\ ReadySet(units'[h]) = ReadySet(units[h]) \ {r}) =>
              \A key \in Keys :
                 \A x \in SelectBackend(units[h], key) :
                    /\ x.backend # r =>
                         SelectBackend(units'[h], key) = {x}
                    /\ \A q \in ReadySet(units[h]) \ {x.backend} :
                         \A y \in SelectBackend(Without(units[h], q), key) :
                            y.backend = x.backend]_vars

\* a probe has taken a backend out of the healthy set of a ConsistentHash
\* upstream with three backends: one key that was on it has moved to a
\* backend still healthy, another key was on another backend and is there
C11_Witness ==
    \E h \in 1..Len(units) : \E r \in units[h].backends :
        LET u == units[h]
            was == [u EXCEPT !.health[r].healthy = TRUE]
        IN /\ u.inner.type = "Ketama"
           /\ Cardinality(u.backends) >= 3
           /\ hist[h][r].flip_fail > 0 /\ ~u.health[r].healthy
           /\ Cardinality(ReadySet(u)) >= 2
           /\ \E k1, k2 \in Keys :
                 /\ \E x \in SelectBackend(was, k1) : x.backend = r
                 /\ \E y \in SelectBackend(u, k1) : y.backend \in ReadySet(u)
                 /\ \E x \in SelectBackend(was, k2) :
                       x.backend # r /\ SelectBackend(u, k2) = {x}

C15_FetchHitOrMiss ==
    [][(req.held = 0 /\ req' # req) =>
          /\ req'.fetched
          /\ UPSTREAM_MAP' = UPSTREAM_MAP
          /\ units' = units
          /\ req'.got = UPSTREAM_MAP[req'.id]
          /\ req'.held = req'.got
          /\ req'.got = 0 => <<"not_found", loader.calls>> \in log']_vars

\* a fetch of an identifier the registry does not have has returned None
\* and was logged, the registry holding a unit under the other identifier
C15_Witness ==
    /\ req.fetched /\ req.got = 0 /\ req.held = 0
    /\ UPSTREAM_MAP[req.id] = 0
    /\ \E id \in Ids : UPSTREAM_MAP[id] # 0
    /\ <<"not_found", req.load>> \in log

\* C16 as claimed: a probe in flight is never ended by anything but its own
\* completion.
C16_ProbeNeverAborted ==
    [][\A h \in 1..Len(units) :
          rt[h].task = "probing" => rt'[h].task \in {"probing", "sleeping"}]_vars

\* C16, amended: the cancellation signal is cooperative, sending it leaves
\* the service and a probe in flight where they are; a probe in flight ends
\* by its completion or else is aborted, and that only by the shutdown of
\* the runtime of a unit whose drop is over.
C16_OnlyShutdownAborts ==
    [][\A h \in 1..Len(units) :
          /\ rt'[h].signal # rt[h].signal => rt'[h].task = rt[h].task
          /\ (rt[h].task = "probing"
                 /\ rt'[h].task \notin {"probing", "sleeping"}) =>
                /\ rt'[h].task = "aborted"
                /\ units[h].phase = "dropped"
                /\ rt[h].shutdown = "requested"
                /\ rt'[h].shutdown = "released"
                /\ hist' = hist /\ units' = units]_vars

\* the probe in flight when the unit was dropped, its cancellation signal
\* sent, was aborted by the shutdown of the runtime: no result of it was
\* observed
C16_Witness ==
    \E h \in 1..Len(units) :
        /\ units[h].phase = "dropped"
        /\ rt[h].signal
        /\ rt[h].task = "aborted" /\ rt[h].node # 0
        /\ rt[h].shutdown = "released"
        /\ hist[h][rt[h].node].probes = 0

\* C18: the phases of a unit follow owned, drop_stop, drop_runtime,
\* dropped, so that each step of the Drop happens at most once; the signal
\* is sent in the one step from drop_stop and the shutdown requested in the
\* one step from drop_runtime; a unit is not in its Drop while the registry,
\* a request or the load building it refers to it; and a step of a load
\* changes nothing of a finished unit that the registry or a request refers
\* to after it.
C18_ReloadSparesReferenced ==
    [][\A h \in 1..Len(units) :
          /\ units'[h].phase # units[h].phase =>
                <<units[h].phase, units'[h].phase>> \in
                    {<<"owned", "drop_stop">>, <<"drop_stop", "drop_runtime">>,
                     <<"drop_runtime", "dropped">>}
          /\ rt'[h].signal # rt[h].signal =>
                units[h].phase = "drop_stop" /\ units'[h].phase = "drop_runtime"
          /\ rt'[h].shutdown # rt[h].shutdown /\ rt'[h].shutdown = "requested" =>
                units[h].phase = "drop_runtime" /\ units'[h].phase = "dropped"
          /\ units'[h].phase # "owned" =>
                ~HeldBy(h, UPSTREAM_MAP', req'.held, loader'.built)
          /\ (loader' # loader /\ units[h].started
                 /\ HeldBy(h, UPSTREAM_MAP', req'.held, <<>>)) =>
                units'[h] = units[h] /\ rt'[h] = rt[h]]_vars

\* the second load has replaced a unit that a request fetched before and
\* still holds: the unit is no longer in the registry, is not in its Drop,
\* and its service goes on
C18_Witness ==
    \E h \in 1..Len(units) :
        /\ loader.pc = "returnedOk" /\ loader.calls = 2
        /\ req.held = h /\ units[h].gen = 1
        /\ \A id \in Ids : UPSTREAM_MAP[id] # h
        /\ UPSTREAM_MAP[units[h].inner.id] # 0
        /\ units[h].phase = "owned" /\ units[h].watch /\ units[h].runtime
        /\ ReceiverAlive(rt[h]) /\ ~rt[h].signal

\* the first entry of the configuration that cannot be constructed comes
\* before any entry without nodes
ConstructionFails(cfg) ==
    \E i \in 1..Len(cfg) :
        /\ cfg[i].nodes > 0 /\ ~cfg[i].nodes_ok
        /\ \A j \in 1..(i - 1) : cfg[j].nodes > 0 /\ cfg[j].nodes_ok

\* C19: a load in which the construction of an upstream fails returns Err
\* with the failure logged; the registry is then what it was when the load
\* began, and every unit this load had built is in its Drop (past owned),
\* the cancellation sent once the drop has taken the sender.
C19_ConstructErrLeavesRegistry ==
    /\ (LoadFinished /\ ConstructionFails(loader.cfg)) =>
          loader.pc = "returnedErr"
    /\ loader.pc = "returnedErr" =>
          /\ ConstructionFails(loader.cfg)
          /\ <<"construct_failed", loader.calls>> \in log
          /\ UPSTREAM_MAP = loader.before
          /\ loader.built = <<>>
          /\ \A h \in 1..Len(units) :
                units[h].gen = loader.calls =>
                   /\ units[h].started /\ units[h].phase # "owned"
                   /\ \A id \in Ids : UPSTREAM_MAP[id] # h
                   /\ (units[h].phase \in {"drop_runtime", "dropped"}
                         /\ ReceiverAlive(rt[h])) => rt[h].signal

\* a load has returned Err after it had built a unit with a health check:
\* the unit is dropped, its service has seen the cancellation and ended,
\* and the registry is as before
C19_Witness ==
    \E h \in 1..Len(units) :
        /\ loader.pc = "returnedErr"
        /\ units[h].gen = loader.calls /\ units[h].hc.set
        /\ units[h].phase = "dropped"
        /\ rt[h].signal /\ rt[h].task = "exited"
        /\ UPSTREAM_MAP = loader.before

\* C17: a unit whose Drop has begun leads to its runtime released and its
\* service no longer running (ended at the signal, or aborted by the
\* shutdown), unless the process has exited before.
C17_DroppedUnitIsReleased ==
    \A h \in Handles :
        (h <= Len(units) /\ units[h].phase = "drop_stop")
            ~> (\/ ~Running
                \/ /\ h <= Len(units)
                   /\ rt[h].shutdown = "released"
                   /\ ~ReceiverAlive(rt[h]))

\* the service of a dropped unit with a health check has ended at the
\* cancellation signal after a probe, and the runtime is released
C17_Witness ==
    \E h \in 1..Len(units) :
        /\ units[h].hc.set /\ units[h].phase = "dropped"
        /\ rt[h].signal /\ rt[h].task = "exited"
        /\ rt[h].shutdown = "released"
        /\ \E n \in units[h].backends : hist[h][n].probes > 0

====
